---- MODULE Spec2Model ----
(***************************************************************************)
(* Default-view pointers of saved table-view presets: the DefaultView      *)
(* table (default_views), DefaultViewService over it, and the operations   *)
(* of TableViewPresetsRouter that call the service.                        *)
(*                                                                         *)
(* Every prisma call is one atomic step on the table; a handler with two   *)
(* awaited calls is two steps, and steps of different requests interleave. *)
(***************************************************************************)
EXTENDS Integers, FiniteSets, TLC

\* JavaScript null (SQL NULL in user_id) and undefined (an absent parameter).
NULL == "null"
UNDEF == "undefined"

Projects == {"p1", "p2"}
Users == {"u1", "u2"}
ViewNames == {"traces"}
Scopes == {"user", "project"}

\* Ids of stored presets, and reserved ids of system presets ("__langfuse_" prefix).
StoredPresetIds == {"v1"}
SystemPresetIds == {"__langfuse_default__"}
ViewIds == StoredPresetIds \cup SystemPresetIds

\* Request slots: the requests in flight at once.
Procs == {1, 2}

\* Rows ever created in default_views (ids are 1..MaxRows, in creation order).
MaxRows == 2

VARIABLES
    defaultViews,   \* the default_views table: a set of rows
    nextId,         \* the next generated row id
    presets,        \* the table_view_presets table
    req,            \* per request slot: the handler's position and locals
    last            \* the call that completed in the last step, with its outcome

vars == <<defaultViews, nextId, presets, req, last>>

----------------------------------------------------------------------------
\* Rows and records

Row(id, projectId, userId, viewName, viewId) ==
    [id |-> id, projectId |-> projectId, userId |-> userId,
     viewName |-> viewName, viewId |-> viewId]

\* A request slot: pc is the handler's position, the rest its locals
\* (userId holds userIdToUse once the service has validated its input).
Idle ==
    [pc |-> "idle", projectId |-> NULL, viewId |-> NULL, viewName |-> NULL,
     scope |-> NULL, userId |-> NULL, existing |-> 0]

InFlight(pc, projectId, viewId, viewName, scope, userId, existing) ==
    [pc |-> pc, projectId |-> projectId, viewId |-> viewId,
     viewName |-> viewName, scope |-> scope, userId |-> userId,
     existing |-> existing]

\* The call that completed in the last step: what it was, how it ended, and
\* what it returned.
NoCall ==
    [op |-> "none", status |-> NULL, projectId |-> NULL, viewId |-> NULL,
     viewName |-> NULL, scope |-> NULL, userId |-> NULL, branch |-> NULL,
     prev |-> NULL, count |-> 0, outViewId |-> NULL, outScope |-> NULL,
     isUserDefault |-> FALSE, isProjectDefault |-> FALSE, affectedCount |-> 0]

Call(op, status) == [NoCall EXCEPT !.op = op, !.status = status]

----------------------------------------------------------------------------
\* The store

\* A prisma `where` field: an undefined value is no filter, null is IS NULL.
WhereUser(rowUserId, filter) == filter = UNDEF \/ rowUserId = filter

\* Rows matching where {projectId, viewName, userId}.
RowsAt(rows, projectId, viewName, userFilter) ==
    {d \in rows : /\ d.projectId = projectId
                  /\ d.viewName = viewName
                  /\ WhereUser(d.userId, userFilter)}

\* Rows matching where {viewId}.
RowsOfView(rows, viewId) == {d \in rows : d.viewId = viewId}

\* A unique index without NULLS NOT DISTINCT: NULL user ids never collide.
UniqueViolationNullsDistinct(rows, projectId, userId, viewName) ==
    \E d \in rows : /\ d.projectId = projectId
                    /\ d.userId = userId
                    /\ userId # NULL
                    /\ d.viewName = viewName

\* default_views_project_id_user_id_view_name_key, NULLS NOT DISTINCT: an
\* insert of (projectId, userId, viewName) is rejected when a row has it.
UniqueViolation(rows, projectId, userId, viewName) ==
    \E d \in rows : /\ d.projectId = projectId
                    /\ d.userId = userId
                    /\ d.viewName = viewName

\* The column value prisma writes for a userId in `data`: undefined is NULL.
ColumnUser(userId) == IF userId = UNDEF THEN NULL ELSE userId

----------------------------------------------------------------------------
\* DefaultViewService, the parts that are pure

\* userIdToUse taken from userId whatever the scope.
UserIdToUseIgnoringScope(scope, userId) == userId

\* const userIdToUse = scope === "user" ? userId : null
UserIdToUse(scope, userId) == IF scope = "user" THEN userId ELSE NULL

\* No validation of the user id.
ValidationNever(scope, userId) == FALSE

\* if (scope === "user" && !userId) throw
ValidationFails(scope, userId) == scope = "user" /\ userId = UNDEF

Absent == [viewId |-> NULL, scope |-> NULL]

\* The project default tried before the user default.
getResolvedDefaultProjectFirst(rows, projectId, viewName, userId) ==
    LET at == {d \in rows : d.projectId = projectId /\ d.viewName = viewName}
        userDefaults == {d \in at : d.userId = userId}
        projectDefaults == {d \in at : d.userId = NULL}
    IN  IF projectDefaults # {}
        THEN [viewId |-> (CHOOSE d \in projectDefaults : TRUE).viewId,
              scope |-> "project"]
        ELSE IF userId # UNDEF /\ userDefaults # {}
        THEN [viewId |-> (CHOOSE d \in userDefaults : TRUE).viewId, scope |-> "user"]
        ELSE Absent

\* Any user's default taken for the caller's.
getResolvedDefaultAnyUser(rows, projectId, viewName, userId) ==
    LET at == {d \in rows : d.projectId = projectId /\ d.viewName = viewName}
        userDefaults == {d \in at : d.userId # NULL}
        projectDefaults == {d \in at : d.userId = NULL}
    IN  IF userId # UNDEF /\ userDefaults # {}
        THEN [viewId |-> (CHOOSE d \in userDefaults : TRUE).viewId, scope |-> "user"]
        ELSE IF projectDefaults # {}
        THEN [viewId |-> (CHOOSE d \in projectDefaults : TRUE).viewId,
              scope |-> "project"]
        ELSE Absent

\* getResolvedDefault: findMany, then user default > project default > null.
getResolvedDefault(rows, projectId, viewName, userId) ==
    LET defaults ==
            {d \in rows : /\ d.projectId = projectId
                          /\ d.viewName = viewName
                          /\ (d.userId = ColumnUser(userId) \/ d.userId = NULL)}
        userDefaults == {d \in defaults : d.userId = userId}
        projectDefaults == {d \in defaults : d.userId = NULL}
    IN  IF userId # UNDEF /\ userDefaults # {}
        THEN [viewId |-> (CHOOSE d \in userDefaults : TRUE).viewId, scope |-> "user"]
        ELSE IF projectDefaults # {}
        THEN [viewId |-> (CHOOSE d \in projectDefaults : TRUE).viewId,
              scope |-> "project"]
        ELSE Absent

\* isViewDefault: findMany where {viewId}, then the three summaries.
isViewDefault(rows, viewId) ==
    LET defaults == RowsOfView(rows, viewId)
    IN  [isUserDefault |-> \E d \in defaults : d.userId # NULL,
         isProjectDefault |-> \E d \in defaults : d.userId = NULL,
         affectedCount |-> Cardinality(defaults)]

\* An update whose where clause is lost: every row gets the viewId.
UpdateEveryRow(rows, id, viewId) == {[d EXCEPT !.viewId = viewId] : d \in rows}

\* The rows after update where {id} data {viewId}.
UpdateById(rows, id, viewId) ==
    {IF d.id = id THEN [d EXCEPT !.viewId = viewId] ELSE d : d \in rows}

\* A cleanup that deletes the project-scoped pointers only.
AfterCleanupProjectOnly(rows, viewId) ==
    rows \ {d \in RowsOfView(rows, viewId) : d.userId = NULL}

\* The rows deleteMany where {viewId} leaves.
AfterCleanup(rows, viewId) == rows \ RowsOfView(rows, viewId)

----------------------------------------------------------------------------
InitPresets == {[id |-> "v1", projectId |-> "p1", tableName |-> "traces"]}

Init ==
    /\ defaultViews = {}
    /\ nextId = 1
    /\ presets = InitPresets
    /\ req = [p \in Procs |-> Idle]
    /\ last = NoCall

\* A request takes the lowest idle slot (slots are interchangeable).
FreeSlot(p) ==
    /\ req[p].pc = "idle"
    /\ \A q \in Procs : q < p => req[q].pc # "idle"

----------------------------------------------------------------------------
\* DefaultViewService.setAsDefault up to its first store call: the validation,
\* then findFirst where {projectId, viewName, userId: userIdToUse}. findFirst
\* has no orderBy, so any matching row may be the one returned.
SetAsDefaultFind(p, projectId, viewId, viewName, scope, userId) ==
    IF ValidationFails(scope, userId)
    THEN /\ last' = [Call("setAsDefault", "validation_error")
                     EXCEPT !.scope = scope]
         /\ req' = [req EXCEPT ![p] = Idle]
         /\ UNCHANGED <<defaultViews, nextId, presets>>
    ELSE LET userIdToUse == UserIdToUse(scope, userId)
             found == RowsAt(defaultViews, projectId, viewName, userIdToUse)
             existing == IF found = {} THEN {0} ELSE {d.id : d \in found}
         IN  /\ \E e \in existing :
                   req' = [req EXCEPT ![p] =
                             InFlight("write", projectId, viewId, viewName,
                                      scope, userIdToUse, e)]
             /\ last' = NoCall
             /\ UNCHANGED <<defaultViews, nextId, presets>>

\* A call of DefaultViewService.setAsDefault arrives.
SetAsDefault(p, projectId, viewId, viewName, scope, userId) ==
    /\ FreeSlot(p)
    /\ SetAsDefaultFind(p, projectId, viewId, viewName, scope, userId)

\* DefaultViewService.setAsDefault, its second store call: update where
\* {id: existing.id} (P2025 when the row is gone), or create (P2002 when the
\* unique index rejects the insert).
SetAsDefaultWrite(p) ==
    /\ req[p].pc = "write"
    /\ LET r == req[p]
           userCol == ColumnUser(r.userId)
           target == {d \in defaultViews : d.id = r.existing}
           done(status, branch) ==
               [Call("setAsDefault", status)
                EXCEPT !.projectId = r.projectId, !.viewId = r.viewId,
                       !.viewName = r.viewName, !.scope = r.scope,
                       !.userId = r.userId, !.branch = branch,
                       !.prev = IF target = {} THEN NULL
                                ELSE (CHOOSE d \in target : TRUE).viewId]
       IN  IF r.existing # 0
           THEN IF target # {}
                THEN /\ defaultViews' =
                          UpdateById(defaultViews, r.existing, r.viewId)
                     /\ last' = done("ok", "update")
                     /\ UNCHANGED nextId
                ELSE /\ last' = done("P2025", "update")
                     /\ UNCHANGED <<defaultViews, nextId>>
           ELSE IF UniqueViolation(defaultViews, r.projectId, userCol, r.viewName)
                THEN /\ last' = done("P2002", "create")
                     /\ UNCHANGED <<defaultViews, nextId>>
                ELSE /\ nextId <= MaxRows
                     /\ defaultViews' = defaultViews \cup
                          {Row(nextId, r.projectId, userCol, r.viewName, r.viewId)}
                     /\ nextId' = nextId + 1
                     /\ last' = done("ok", "create")
    /\ req' = [req EXCEPT ![p] = Idle]
    /\ UNCHANGED presets

\* DefaultViewService.clearDefault
ClearDefault(projectId, viewName, scope, userId) ==
    /\ IF ValidationFails(scope, userId)
       THEN /\ last' = [Call("clearDefault", "validation_error")
                        EXCEPT !.scope = scope]
            /\ UNCHANGED defaultViews
       ELSE LET gone == RowsAt(defaultViews, projectId, viewName,
                               UserIdToUse(scope, userId))
            IN  /\ defaultViews' = defaultViews \ gone
                /\ last' = [Call("clearDefault", "ok")
                            EXCEPT !.scope = scope, !.count = Cardinality(gone)]
    /\ UNCHANGED <<nextId, presets, req>>

\* DefaultViewService.cleanupOrphanedDefaults
CleanupOrphanedDefaults(viewId) ==
    /\ defaultViews' = AfterCleanup(defaultViews, viewId)
    /\ last' = [Call("cleanupOrphanedDefaults", "ok")
                EXCEPT !.viewId = viewId,
                       !.count = Cardinality(RowsOfView(defaultViews, viewId))]
    /\ UNCHANGED <<nextId, presets, req>>

----------------------------------------------------------------------------
\* TableViewPresetsRouter

IsSystemPreset(viewId) == viewId \in SystemPresetIds

\* TableViewService.getTableViewPresetsById(id, projectId): the preset of that
\* project, or none.
PresetsById(id, projectId) ==
    {v \in presets : v.id = id /\ v.projectId = projectId}

\* TableViewPresetsRouter.setAsDefault up to its first awaited call. With no
\* viewName for a stored preset that is the preset lookup; otherwise it is
\* the service's findFirst.
RouterSetAsDefault(p, projectId, viewId, viewName, scope, sessionUser) ==
    LET userId == IF scope = "user" THEN sessionUser ELSE UNDEF
        views == PresetsById(viewId, projectId)
    IN  /\ FreeSlot(p)
        /\ IF viewName = UNDEF /\ ~IsSystemPreset(viewId)
           THEN IF views = {}
                THEN /\ last' = Call("router.setAsDefault", "not_found")
                     /\ UNCHANGED <<defaultViews, nextId, presets, req>>
                ELSE /\ \E v \in views :
                          req' = [req EXCEPT ![p] =
                                    InFlight("find", projectId, viewId,
                                             v.tableName, scope, userId, 0)]
                     /\ last' = NoCall
                     /\ UNCHANGED <<defaultViews, nextId, presets>>
           ELSE IF viewName = UNDEF
                THEN /\ last' = Call("router.setAsDefault", "viewName_required")
                     /\ UNCHANGED <<defaultViews, nextId, presets, req>>
                ELSE SetAsDefaultFind(p, projectId, viewId, viewName, scope, userId)

\* TableViewPresetsRouter.setAsDefault after the preset lookup: the call of
\* DefaultViewService.setAsDefault.
RouterSetAsDefaultCall(p) ==
    /\ req[p].pc = "find"
    /\ SetAsDefaultFind(p, req[p].projectId, req[p].viewId, req[p].viewName,
                        req[p].scope, req[p].userId)

\* TableViewPresetsRouter.delete, its first awaited call:
\* cleanupOrphanedDefaults(input.tableViewPresetsId).
RouterDelete(p, projectId, presetId) ==
    /\ FreeSlot(p)
    /\ defaultViews' = AfterCleanup(defaultViews, presetId)
    /\ req' = [req EXCEPT ![p] =
                 InFlight("deletePreset", projectId, presetId, NULL, NULL, NULL, 0)]
    /\ last' = NoCall
    /\ UNCHANGED <<nextId, presets>>

\* TableViewPresetsRouter.delete, its second awaited call:
\* TableViewService.deleteTableViewPresets(id, projectId), which fails when
\* the project has no such preset.
RouterDeletePreset(p) ==
    /\ req[p].pc = "deletePreset"
    /\ LET views == PresetsById(req[p].viewId, req[p].projectId)
           done(status) ==
               [Call("router.delete", status)
                EXCEPT !.projectId = req[p].projectId, !.viewId = req[p].viewId]
       IN  IF views = {}
           THEN /\ last' = done("not_found")
                /\ UNCHANGED presets
           ELSE /\ presets' = presets \ views
                /\ last' = done("ok")
    /\ req' = [req EXCEPT ![p] = Idle]
    /\ UNCHANGED <<defaultViews, nextId>>

----------------------------------------------------------------------------
\* The reads, which leave the store as it is

\* DefaultViewService.getResolvedDefault
GetResolvedDefault(projectId, viewName, userId) ==
    LET r == getResolvedDefault(defaultViews, projectId, viewName, userId)
    IN  /\ last' = [Call("getResolvedDefault", "ok")
                    EXCEPT !.projectId = projectId, !.viewName = viewName,
                           !.userId = userId,
                           !.outViewId = r.viewId, !.outScope = r.scope]
        /\ UNCHANGED <<defaultViews, nextId, presets, req>>

\* DefaultViewService.isViewDefault
IsViewDefault(viewId) ==
    LET r == isViewDefault(defaultViews, viewId)
    IN  /\ last' = [Call("isViewDefault", "ok")
                    EXCEPT !.viewId = viewId,
                           !.isUserDefault = r.isUserDefault,
                           !.isProjectDefault = r.isProjectDefault,
                           !.affectedCount = r.affectedCount]
        /\ UNCHANGED <<defaultViews, nextId, presets, req>>

----------------------------------------------------------------------------
\* Specifications

UserArgs == Users \cup {UNDEF}

\* The users of the specifications with two requests in flight.
Writers == {"u1"}
WriterArgs == Writers \cup {UNDEF}

\* DefaultViewService under concurrent callers.
Next ==
    \/ \E p \in Procs, pr \in Projects, v \in ViewIds, vn \in ViewNames,
          s \in Scopes, u \in WriterArgs :
          SetAsDefault(p, pr, v, vn, s, u)
    \/ \E p \in Procs : SetAsDefaultWrite(p)
    \/ \E pr \in Projects, vn \in ViewNames, s \in Scopes, u \in WriterArgs :
          ClearDefault(pr, vn, s, u)
    \/ \E v \in ViewIds : CleanupOrphanedDefaults(v)

Spec == Init /\ [][Next]_vars

\* DefaultViewService with one setAsDefault call in flight at a time, which
\* clearDefault and cleanupOrphanedDefaults calls may still cut in two.
NextOne ==
    \/ \E pr \in Projects, v \in ViewIds, vn \in ViewNames,
          s \in Scopes, u \in UserArgs :
          SetAsDefault(1, pr, v, vn, s, u)
    \/ SetAsDefaultWrite(1)
    \/ \E pr \in Projects, vn \in ViewNames, s \in Scopes, u \in UserArgs :
          ClearDefault(pr, vn, s, u)
    \/ \E v \in ViewIds : CleanupOrphanedDefaults(v)

SpecOne == Init /\ [][NextOne]_vars

\* TableViewPresetsRouter.setAsDefault and .delete under concurrent requests.
NextRouter ==
    \/ \E p \in Procs, pr \in Projects, v \in ViewIds,
          vn \in ViewNames \cup {UNDEF}, s \in Scopes, u \in WriterArgs :
          RouterSetAsDefault(p, pr, v, vn, s, u)
    \/ \E p \in Procs : RouterSetAsDefaultCall(p)
    \/ \E p \in Procs : SetAsDefaultWrite(p)
    \/ \E p \in Procs, pr \in Projects, v \in ViewIds : RouterDelete(p, pr, v)
    \/ \E p \in Procs : RouterDeletePreset(p)

SpecRouter == Init /\ [][NextRouter]_vars

\* The reads over every store the unique index admits.
Keys == Projects \X (Users \cup {NULL}) \X ViewNames

KeyOrder ==
    CHOOSE f \in [Keys -> 1..Cardinality(Keys)] :
        \A k1, k2 \in Keys : f[k1] = f[k2] => k1 = k2

AllStores ==
    {{Row(KeyOrder[k], k[1], k[2], k[3], f[k]) : k \in {x \in Keys : f[x] # NULL}} :
        f \in [Keys -> ViewIds \cup {NULL}]}

InitReads ==
    /\ defaultViews \in AllStores
    /\ nextId = Cardinality(Keys) + 1
    /\ presets = InitPresets
    /\ req = [p \in Procs |-> Idle]
    /\ last = NoCall

NextReads ==
    \/ \E pr \in Projects, vn \in ViewNames, u \in UserArgs :
          GetResolvedDefault(pr, vn, u)
    \/ \E v \in ViewIds : IsViewDefault(v)

SpecReads == InitReads /\ [][NextReads]_vars

----------------------------------------------------------------------------
\* Properties

\* The rows of one key: (projectId, userId, viewName), NULL a user id like any.
KeyRows(rows, projectId, userId, viewName) ==
    {d \in rows : /\ d.projectId = projectId
                  /\ d.userId = userId
                  /\ d.viewName = viewName}

\* C1: in every reachable state of concurrent setAsDefault, clearDefault and
\* cleanupOrphanedDefaults calls the table holds at most one row per
\* (projectId, userId, viewName), a NULL userId counting as one value.
C1_UniquePerKey ==
    \A d1, d2 \in defaultViews :
        (/\ d1.projectId = d2.projectId
         /\ d1.userId = d2.userId
         /\ d1.viewName = d2.viewName) => d1 = d2

\* Two project-scoped setAsDefault calls raced: the second insert was
\* rejected and one NULL-user row stands.
C1_Witness ==
    /\ last.op = "setAsDefault"
    /\ last.status = "P2002"
    /\ last.userId = NULL
    /\ Cardinality(KeyRows(defaultViews, last.projectId, NULL, last.viewName)) = 1

\* C2: when the caller's own pointer and the project pointer both exist,
\* getResolvedDefault returns the caller's pointer with scope "user".
C2_UserDefaultWins ==
    last.op = "getResolvedDefault" =>
        LET own == KeyRows(defaultViews, last.projectId, last.userId, last.viewName)
            proj == KeyRows(defaultViews, last.projectId, NULL, last.viewName)
        IN  (last.userId \in Users /\ own # {} /\ proj # {}) =>
                /\ last.outScope = "user"
                /\ \A d \in own : last.outViewId = d.viewId

\* Both pointers exist with different views and the read returned the user's.
C2_Witness ==
    /\ last.op = "getResolvedDefault"
    /\ last.outScope = "user"
    /\ \E d \in KeyRows(defaultViews, last.projectId, last.userId, last.viewName),
          e \in KeyRows(defaultViews, last.projectId, NULL, last.viewName) :
          d.viewId # e.viewId /\ last.outViewId = d.viewId

\* C3: with no userId, or a user that has no pointer of its own,
\* getResolvedDefault returns the project pointer with scope "project" if it
\* exists and absent otherwise, whatever other users' pointers exist.
C3_FallsBackToProject ==
    last.op = "getResolvedDefault" =>
        LET own == KeyRows(defaultViews, last.projectId, last.userId, last.viewName)
            proj == KeyRows(defaultViews, last.projectId, NULL, last.viewName)
        IN  (last.userId = UNDEF \/ own = {}) =>
                IF proj # {}
                THEN /\ last.outScope = "project"
                     /\ \A d \in proj : last.outViewId = d.viewId
                ELSE last.outViewId = NULL /\ last.outScope = NULL

\* Another user holds a personal default, the caller and the project hold
\* none, and the read returned absent.
C3_Witness ==
    /\ last.op = "getResolvedDefault"
    /\ last.userId \in Users
    /\ KeyRows(defaultViews, last.projectId, last.userId, last.viewName) = {}
    /\ KeyRows(defaultViews, last.projectId, NULL, last.viewName) = {}
    /\ \E d \in defaultViews : /\ d.projectId = last.projectId
                               /\ d.viewName = last.viewName
                               /\ d.userId \in Users
    /\ last.outViewId = NULL
    /\ last.outScope = NULL

\* The row findFirst returned to request p (or its absence) is still what the
\* table holds at p's key: no other call changed the key in between, as when
\* calls run one after another.
FindIsCurrent(p) ==
    LET at == KeyRows(defaultViews, req[p].projectId, req[p].userId,
                      req[p].viewName)
    IN  IF req[p].existing = 0
        THEN at = {}
        ELSE at # {} /\ at = {d \in defaultViews : d.id = req[p].existing}

\* C4: a setAsDefault call not interleaved with a change of its key ends with
\* exactly one row at the key, carrying the call's viewId; the row keeps its
\* id when the key had a row; the rows of every other key are unchanged.
C4_SetUpdatesInPlace ==
    [][\A p \in Procs :
          (req[p].pc = "write" /\ FindIsCurrent(p) /\ SetAsDefaultWrite(p)) =>
              LET r == req[p]
                  before == KeyRows(defaultViews, r.projectId, r.userId, r.viewName)
                  after == KeyRows(defaultViews', r.projectId, r.userId, r.viewName)
              IN  /\ last'.status = "ok"
                  /\ Cardinality(after) = 1
                  /\ \A d \in after : /\ d.viewId = r.viewId
                                      /\ r.existing # 0 => d.id = r.existing
                  /\ defaultViews' \ after = defaultViews \ before]_vars

\* A call found the key's row holding another view and updated it in place,
\* next to a row of another key.
C4_Witness ==
    /\ last.op = "setAsDefault"
    /\ last.status = "ok"
    /\ last.branch = "update"
    /\ last.prev # last.viewId
    /\ \E d \in KeyRows(defaultViews, last.projectId, last.userId, last.viewName) :
          d.viewId = last.viewId
    /\ Cardinality(defaultViews) = 2

\* Slot p is idle and this step is a call of setAsDefault: one that takes
\* the slot, or one that ends at once.
Takes(p) ==
    /\ req[p].pc = "idle"
    /\ req'[p].pc # "idle" \/ last'.op = "setAsDefault"

\* C5: setAsDefault and clearDefault with scope "user" and no userId end in a
\* validation error and leave the table as it was.
C5_ValidationLeavesStore ==
    [][/\ \A p \in Procs, pr \in Projects, v \in ViewIds, vn \in ViewNames :
             (Takes(p) /\ SetAsDefault(p, pr, v, vn, "user", UNDEF)) =>
                 /\ last'.op = "setAsDefault"
                 /\ last'.status = "validation_error"
                 /\ UNCHANGED <<defaultViews, nextId, req>>
       /\ \A pr \in Projects, vn \in ViewNames :
             (last'.op = "clearDefault" /\ ClearDefault(pr, vn, "user", UNDEF)) =>
                 /\ last'.op = "clearDefault"
                 /\ last'.status = "validation_error"
                 /\ UNCHANGED <<defaultViews, nextId, req>>]_vars

\* A clearDefault failed its validation while project-scoped and user-scoped
\* rows stood.
C5_Witness ==
    /\ last.op = "clearDefault"
    /\ last.status = "validation_error"
    /\ \E d \in defaultViews : d.userId = NULL
    /\ \E d \in defaultViews : d.userId # NULL

\* C6: a setAsDefault call whose insert hits the unique index does not end in
\* an error.
C6_NoConflictError ==
    ~(last.op = "setAsDefault" /\ last.status = "P2002")

NotDefault == [isUserDefault |-> FALSE, isProjectDefault |-> FALSE, affectedCount |-> 0]

\* C7: cleanupOrphanedDefaults(V) succeeds, leaves isViewDefault(V) at
\* {false, false, 0} and the rows of other views as they were; and once
\* isViewDefault(V) is {false, false, 0} only a write of setAsDefault ends that.
C7_CleanupClearsView ==
    [][/\ \A v \in ViewIds :
             (last'.op = "cleanupOrphanedDefaults" /\ CleanupOrphanedDefaults(v)) =>
                 /\ last'.status = "ok"
                 /\ isViewDefault(defaultViews', v) = NotDefault
                 /\ {d \in defaultViews' : d.viewId # v}
                        = {d \in defaultViews : d.viewId # v}
       /\ \A v \in ViewIds :
             (/\ defaultViews' # defaultViews
              /\ isViewDefault(defaultViews, v) = NotDefault
              /\ ~ \E p \in Procs : SetAsDefaultWrite(p)) =>
                 isViewDefault(defaultViews', v) = NotDefault]_vars

\* A cleanup deleted a user-scoped and a project-scoped pointer at once.
C7_Witness ==
    /\ last.op = "cleanupOrphanedDefaults"
    /\ last.count = 2
    /\ isViewDefault(defaultViews, last.viewId) = NotDefault

\* C8: a valid clearDefault removes exactly the rows of its effective key and
\* changes no other row (none when the key has no row); after a user-scoped
\* clear the user's getResolvedDefault returns the project pointer, if any,
\* with scope "project".
C8_ClearRemovesOnlyKey ==
    [][\A pr \in Projects, vn \in ViewNames, s \in Scopes, u \in UserArgs :
          (/\ last'.op = "clearDefault"
           /\ last'.scope = s
           /\ ~(s = "user" /\ u = UNDEF)
           /\ ClearDefault(pr, vn, s, u)) =>
              LET effective == IF s = "user" THEN u ELSE NULL
                  proj == KeyRows(defaultViews, pr, NULL, vn)
              IN  /\ last'.status = "ok"
                  /\ defaultViews' =
                        defaultViews \ KeyRows(defaultViews, pr, effective, vn)
                  /\ (s = "user" /\ proj # {}) =>
                        \A d \in proj :
                            getResolvedDefault(defaultViews', pr, vn, u)
                                = [viewId |-> d.viewId, scope |-> "project"]]_vars

\* A user-scoped clear removed the user's row and the project's row stands.
C8_Witness ==
    /\ last.op = "clearDefault"
    /\ last.status = "ok"
    /\ last.scope = "user"
    /\ last.count = 1
    /\ \E d \in defaultViews : d.userId = NULL

\* C9: whenever the router's delete of preset V has completed, no default
\* pointer references V.
C9_NoPointerAfterDelete ==
    (last.op = "router.delete" /\ last.status = "ok") =>
        RowsOfView(defaultViews, last.viewId) = {}

\* C10: the router's delete for project P changes no default pointer of
\* another project.
C10_DeleteStaysInProject ==
    [][\A p \in Procs, pr \in Projects, v \in ViewIds :
          RouterDelete(p, pr, v) =>
              {d \in defaultViews' : d.projectId # pr}
                  = {d \in defaultViews : d.projectId # pr}]_vars

====
